---- MODULE Spec2Model ----
(***************************************************************************)
(* PulseAI (src/app.py): a Flask application with session login and        *)
(* registration, a 13-feature heart-disease prediction form and a chat     *)
(* endpoint in front of a hosted generative model.                         *)
(*                                                                         *)
(* Each client (a browser with its own session cookie) has at most one     *)
(* request in flight; requests of different clients interleave at the      *)
(* points where a handler reads or writes process-wide or persisted state  *)
(* (the identity table, the module-level _model).                          *)
(*                                                                         *)
(* An optional value (Python's None or an object) is a sequence of length  *)
(* zero or one.  Model names are sequences of the tokens between '/' and   *)
(* '-', so that Python's substring test becomes a contiguous-run test.     *)
(***************************************************************************)
EXTENDS Integers, Sequences, FiniteSets

\* ------------------------------------------------------------- bounds
NumClients == 2
MaxSalt == 1
Slack == 1
MaxLabel == 2
InitRunsCap == 2

\* -------------------------------------------------- program constants
NumFeatures == 13
Temperature == 70
TopP == 95
TopK == 40
MaxOutputTokens == 1024

Clients == 1..NumClients
Usernames == {"alice"}
Passwords == {"pw1", "pw2"}
Salts == 1..MaxSalt
Methods == {"GET", "POST"}

None == <<>>
Some(v) == <<v>>

VARIABLES
    load_error,        \* the file whose loading raised at start, "none" if neither
    lr,                \* module-level classifier, None or the object
    sc,                \* module-level scaler, None or the object
    GEMINI_API_KEY,    \* module-level credential, None or the key
    _model,            \* module-level cached handle, None or the handle
    users,             \* the User table, rows in insertion order
    session,           \* per client: the user id in its session cookie, 0 if none
    pc,                \* per client: where its in-flight request stands
    req,               \* per client: the locals of its in-flight request
    last,              \* the response most recently sent
    registered,        \* history: the <<username, password>> pairs committed
    logged_in,         \* history: per client, a login with a registered pair
                       \*          succeeded and no logout request followed
    init_runs          \* history: executions of get_ai_model's set-up block

vars == <<load_error, lr, sc, GEMINI_API_KEY, _model, users, session,
          pc, req, last, registered, logged_in, init_runs>>

\* ------------------------------------------------------ artifact loading
\* One try block loads lr.pkl and then sc.pkl; whichever raises, the except
\* clause sets both names to None.
LoadErrors == {"none", "lr.pkl", "sc.pkl"}
MutLoadedLr(error) == IF error # "lr.pkl" THEN Some("LogisticRegression") ELSE None
LoadedLr(error) == IF error = "none" THEN Some("LogisticRegression") ELSE None
LoadedSc(error) == IF error = "none" THEN Some("StandardScaler") ELSE None

\* ---------------------------------------------------------- passwords
\* generate_password_hash: a salted digest; the digest is injective in
\* (salt, password) over the bounded domain, as a cryptographic hash is in
\* practice.
PasswordCode(password) == IF password = "pw1" THEN 1 ELSE 2
Digest(salt, password) == salt * 10 + PasswordCode(password)
generate_password_hash(salt, password) ==
    [salt |-> salt, digest |-> Digest(salt, password)]
MutCheckPasswordHash(password_hash, password) == TRUE
check_password_hash(password_hash, password) ==
    password_hash.digest = Digest(password_hash.salt, password)

\* ------------------------------------------------------------ the table
RowsByUsername(table, username) ==
    {i \in 1..Len(table) : table[i].username = username}
\* User.query.filter_by(username=...).first()
FirstByUsername(table, username) ==
    IF RowsByUsername(table, username) = {} THEN None
    ELSE Some(table[CHOOSE i \in RowsByUsername(table, username) :
                      \A j \in RowsByUsername(table, username) : i <= j])
\* load_user: User.query.get(int(user_id))
load_user(table, user_id) ==
    IF \E i \in 1..Len(table) : table[i].id = user_id
    THEN Some(table[CHOOSE i \in 1..Len(table) : table[i].id = user_id])
    ELSE None
\* current_user.is_authenticated
is_authenticated(c) == session[c] # 0 /\ load_user(users, session[c]) # None
\* the unique=True constraint on username, enforced by the store at commit
UniqueViolation(table, username) == RowsByUsername(table, username) # {}

\* ------------------------------------------------------------ responses
NoResponse ==
    [route |-> "none", status |-> "none", flash |-> "none", count |-> 0,
     detail |-> "none", prediction_text |-> "", prediction_class |-> "none",
     parsed |-> FALSE, scaler |-> FALSE, classifier |-> FALSE, label |-> 0,
     reply |-> "none", form |-> <<>>]
Response(route, status, flash) ==
    [NoResponse EXCEPT !.route = route, !.status = status, !.flash = flash]
\* login_required on an anonymous request: Flask-Login's redirect to login_view
Unauthorized(route) == Response(route, "unauthorized", "Please log in")

Idle == [username |-> "none", password |-> "none",
         password_hash |-> [salt |-> 0, digest |-> 0],
         model |-> None, user_message |-> None]


\* ------------------------------------------------------------------ Init
Init ==
    /\ load_error \in LoadErrors
    /\ lr = LoadedLr(load_error)
    /\ sc = LoadedSc(load_error)
    /\ GEMINI_API_KEY \in {None, Some("key")}
    /\ _model = None
    /\ users = <<>>
    /\ session = [c \in Clients |-> 0]
    /\ pc = [c \in Clients |-> "idle"]
    /\ req = [c \in Clients |-> Idle]
    /\ last = NoResponse
    /\ registered = {}
    /\ logged_in = [c \in Clients |-> FALSE]
    /\ init_runs = 0

Process == <<load_error, lr, sc, GEMINI_API_KEY>>
Lazy == <<_model, init_runs>>

\* ------------------------------------------------------- login, logout
\* login(): '/' and '/login'
login(c, method, username, password) ==
    /\ pc[c] = "idle"
    /\ logged_in' = [logged_in EXCEPT
                       ![c] = @ \/ (method = "POST" /\ <<username, password>> \in registered)]
    /\ IF is_authenticated(c)
       THEN /\ last' = Response("login", "redirect_predictor", "none")
            /\ UNCHANGED session
       ELSE IF method = "POST"
       THEN LET user == FirstByUsername(users, username) IN
            IF user # None /\ check_password_hash(user[1].password_hash, password)
            THEN /\ session' = [session EXCEPT ![c] = user[1].id]
                 /\ last' = Response("login", "redirect_predictor", "Logged in successfully!")
            ELSE /\ last' = Response("login", "render_index", "Invalid username or password.")
                 /\ UNCHANGED session
       ELSE /\ last' = Response("login", "render_index", "none")
            /\ UNCHANGED session
    /\ UNCHANGED <<Process, Lazy, users, pc, req, registered>>

\* logout(): behind login_required
logout(c) ==
    /\ pc[c] = "idle"
    /\ logged_in' = [logged_in EXCEPT ![c] = FALSE]
    /\ IF ~is_authenticated(c)
       THEN /\ last' = Unauthorized("logout")
            /\ UNCHANGED session
       ELSE /\ session' = [session EXCEPT ![c] = 0]
            /\ last' = Response("logout", "redirect_login", "Logged out.")
    /\ UNCHANGED <<Process, Lazy, users, pc, req, registered>>

\* predictor(): behind login_required
predictor(c) ==
    /\ pc[c] = "idle"
    /\ last' = IF ~is_authenticated(c) THEN Unauthorized("predictor")
               ELSE Response("predictor", "render_predictor", "none")
    /\ UNCHANGED <<Process, Lazy, users, session, pc, req, registered, logged_in>>

\* ------------------------------------------------------------ register
\* register() up to db.session.add: the existence query and the new row
register_query(c, method, username, password, salt) ==
    /\ pc[c] = "idle"
    /\ IF is_authenticated(c)
       THEN /\ last' = Response("register", "redirect_predictor", "none")
            /\ UNCHANGED <<pc, req>>
       ELSE IF method = "POST"
       THEN IF FirstByUsername(users, username) # None
            THEN /\ last' = Response("register", "render_register", "Username exists.")
                 /\ UNCHANGED <<pc, req>>
            ELSE /\ pc' = [pc EXCEPT ![c] = "register_commit"]
                 /\ req' = [req EXCEPT ![c] =
                              [Idle EXCEPT !.username = username,
                                           !.password = password,
                                           !.password_hash =
                                               generate_password_hash(salt, password)]]
                 /\ UNCHANGED last
       ELSE /\ last' = Response("register", "render_register", "none")
            /\ UNCHANGED <<pc, req>>
    /\ UNCHANGED <<Process, Lazy, users, session, registered, logged_in>>

\* register() from db.session.commit on.  The INSERT fails on the unique
\* constraint when the username was committed meanwhile; nothing catches
\* the IntegrityError, so the request ends as an unhandled error.
register_commit(c) ==
    /\ pc[c] = "register_commit"
    /\ pc' = [pc EXCEPT ![c] = "idle"]
    /\ req' = [req EXCEPT ![c] = Idle]
    /\ IF UniqueViolation(users, req[c].username)
       THEN /\ last' = [Response("register", "unhandled_exception", "none")
                          EXCEPT !.detail = "IntegrityError"]
            /\ UNCHANGED <<users, registered>>
       ELSE /\ users' = Append(users, [id |-> Len(users) + 1,
                                       username |-> req[c].username,
                                       password_hash |-> req[c].password_hash])
            /\ registered' = registered \cup {<<req[c].username, req[c].password>>}
            /\ last' = Response("register", "redirect_login", "Registration successful!")
    /\ UNCHANGED <<Process, Lazy, session, logged_in>>

\* -------------------------------------------------------------- predict
\* What a form field can hold.  Python's float() accepts "nan" and "inf"
\* (and yields a non-finite value); it raises ValueError on "abc" and "".
Tokens == {"63", "2.3", "abc", "", "nan", "inf"}
\* float(x): whether it raises, and the value (finite values in tenths).
float(x) ==
    CASE x = "63"  -> [raises |-> FALSE, kind |-> "finite", tenths |-> 630]
      [] x = "2.3" -> [raises |-> FALSE, kind |-> "finite", tenths |-> 23]
      [] x = "nan" -> [raises |-> FALSE, kind |-> "nan", tenths |-> 0]
      [] x = "inf" -> [raises |-> FALSE, kind |-> "inf", tenths |-> 0]
      [] OTHER     -> [raises |-> TRUE, kind |-> "none", tenths |-> 0]

\* The forms submitted: the right number of fields give or take Slack, or
\* none at all; every field numeric, or one field (the first, or the last of
\* the shortest form) replaced by a token that is no finite number.
GoodField(i) == IF i % 2 = 1 THEN "63" ELSE "2.3"
FormLengths == {0} \cup {n \in (NumFeatures - Slack)..(NumFeatures + Slack) : n >= 0}
Forms ==
    {[i \in 1..n |-> GoodField(i)] : n \in FormLengths}
    \cup {[i \in 1..n |-> IF i = pos THEN tok ELSE GoodField(i)] :
            n \in FormLengths \ {0}, pos \in {1, NumFeatures - Slack},
            tok \in {"abc", "", "nan", "inf"}}

\* [float(x) for x in request.form.values()]: the index of the first value
\* float() raises on, 0 if none
FirstRaising(form) ==
    IF \E i \in 1..Len(form) : float(form[i]).raises
    THEN CHOOSE i \in 1..Len(form) :
            /\ float(form[i]).raises
            /\ \A j \in 1..(i - 1) : ~float(form[j]).raises
    ELSE 0
input_data(form) == [i \in 1..Len(form) |-> float(form[i])]

\* len(input_data) != 13
MutWrongCount(data) == Len(data) < NumFeatures
WrongCount(data) == Len(data) # NumFeatures

\* prediction[0] == 1
MutIsPositive(label) == label # 0
IsPositive(label) == label = 1

\* the fitted objects are opaque: each call returns or raises
ScalerOutcomes == {"ok", "raise"}
Labels == 0..MaxLabel
ClassifierOutcomes ==
    {[raises |-> TRUE, label |-> 0]} \cup {[raises |-> FALSE, label |-> l] : l \in Labels}

\* not lr or not sc
ArtifactsMissing(l, s) == l = None \/ s = None

Rendered(form, flash) ==
    [Response("predict", "render_predictor", flash) EXCEPT !.form = form]

\* predict() past login_required: the page it renders for a form, given what
\* sc.transform and lr.predict do when they are reached
predict_response(form, std, prediction) ==
    IF ArtifactsMissing(lr, sc) THEN Rendered(form, "Models not loaded.")
    ELSE IF FirstRaising(form) # 0
    THEN [Rendered(form, "Error: {e}") EXCEPT !.detail = "ValueError", !.parsed = TRUE]
    ELSE IF WrongCount(input_data(form))
    THEN [Rendered(form, "Error: Expected 13 features, got {n}.")
            EXCEPT !.count = Len(input_data(form)), !.parsed = (Len(form) > 0)]
    ELSE IF std = "raise"
    THEN [Rendered(form, "Error: {e}") EXCEPT !.detail = "sc.transform raised",
                                              !.parsed = TRUE, !.scaler = TRUE]
    ELSE IF prediction.raises
    THEN [Rendered(form, "Error: {e}") EXCEPT !.detail = "lr.predict raised",
                                              !.parsed = TRUE, !.scaler = TRUE,
                                              !.classifier = TRUE]
    ELSE IF IsPositive(prediction.label)
    THEN [Rendered(form, "none") EXCEPT
            !.prediction_text = "Patient Diagnosed With Heart Disease",
            !.prediction_class = "text-red-600",
            !.parsed = TRUE, !.scaler = TRUE, !.classifier = TRUE,
            !.label = prediction.label]
    ELSE [Rendered(form, "none") EXCEPT
            !.prediction_text = "CONGRATULATIONS! Patient Not Diagnosed With Heart Disease",
            !.prediction_class = "text-green-600",
            !.parsed = TRUE, !.scaler = TRUE, !.classifier = TRUE,
            !.label = prediction.label]

\* the pages predict() can render for a form
predict_outcomes(form) ==
    {predict_response(form, std, prediction) :
        std \in ScalerOutcomes, prediction \in ClassifierOutcomes}

\* predict(): behind login_required
predict(c) ==
    /\ pc[c] = "idle"
    /\ IF ~is_authenticated(c)
       THEN last' = Unauthorized("predict")
       ELSE \E form \in Forms : last' \in predict_outcomes(form)
    /\ UNCHANGED <<Process, Lazy, users, session, pc, req, registered, logged_in>>

\* ------------------------------------------------------- get_ai_model
Contains(name, sub) ==
    \E k \in 0..(Len(name) - Len(sub)) : \A i \in 1..Len(sub) : name[k + i] = sub[i]

priority_substrings ==
    << <<"gemini", "1.5", "flash">>, <<"gemini", "1.5", "pro">>,
       <<"gemini", "1.0", "pro">>, <<"gemini", "pro">> >>
HardDefault == <<"models", "gemini", "1.5", "flash">>
generation_config ==
    [temperature |-> Temperature, top_p |-> TopP, top_k |-> TopK,
     max_output_tokens |-> MaxOutputTokens]

Flash15 == [name |-> <<"models", "gemini", "1.5", "flash">>,
            supported_generation_methods |-> {"generateContent", "countTokens"}]
Pro15 == [name |-> <<"models", "gemini", "1.5", "pro">>,
          supported_generation_methods |-> {"generateContent", "countTokens"}]
FlashExp == [name |-> <<"models", "gemini", "1.5", "flash", "exp">>,
             supported_generation_methods |-> {"generateContent"}]
ProVision == [name |-> <<"models", "gemini", "pro", "vision">>,
              supported_generation_methods |-> {"generateContent"}]
Embedding == [name |-> <<"models", "embedding", "001">>,
              supported_generation_methods |-> {"embedContent"}]
Bison == [name |-> <<"models", "text", "bison">>,
          supported_generation_methods |-> {"generateContent"}]

\* What genai.list_models() can yield: the models the provider lists, and
\* how many of them the iteration delivers before it raises (-1: it does not).
Catalogues ==
    { <<>>, <<Pro15, Flash15>>, <<Embedding, FlashExp, Pro15>>,
      <<FlashExp, ProVision, Bison>>, <<Embedding, FlashExp>> }
Listings ==
    {[models |-> cat, raises_after |-> k] : cat \in Catalogues, k \in {-1, 0}}

\* the loop over list_models() with its own try/except
available_models(listing) ==
    LET delivered == IF listing.raises_after = -1 THEN listing.models
                     ELSE SubSeq(listing.models, 1, listing.raises_after)
        keep(m) == "generateContent" \in m.supported_generation_methods
    IN  [i \in 1..Len(SelectSeq(delivered, keep)) |-> SelectSeq(delivered, keep)[i].name]

Least(S) == CHOOSE i \in S : \A j \in S : i <= j
PriorityMatches(available, priority) ==
    {i \in 1..Len(available) :
        Contains(available[i], priority) /\ ~Contains(available[i], <<"exp">>)}
MatchedPriorities(available) ==
    {k \in 1..Len(priority_substrings) :
        PriorityMatches(available, priority_substrings[k]) # {}}
FirstPlain(available) ==
    {i \in 1..Len(available) :
        ~Contains(available[i], <<"exp">>) /\ ~Contains(available[i], <<"vision">>)}
chosen_model_name(available) ==
    IF MatchedPriorities(available) # {}
    THEN available[Least(PriorityMatches(available,
                   priority_substrings[Least(MatchedPriorities(available))]))]
    ELSE IF FirstPlain(available) # {} THEN available[Least(FirstPlain(available))]
    ELSE HardDefault

GenerativeModel(model_name, config) ==
    [model_name |-> model_name, generation_config |-> config]

Bump(n) == IF n < InitRunsCap THEN n + 1 ELSE n

\* get_ai_model, lines 56-61: the test of the cached handle and of the key
get_ai_model_enter(c) ==
    /\ pc[c] = "get_ai_model"
    /\ IF _model # None
       THEN /\ req' = [req EXCEPT ![c].model = _model]
            /\ pc' = [pc EXCEPT ![c] = "chat_model"]
       ELSE IF GEMINI_API_KEY = None
       THEN /\ req' = [req EXCEPT ![c].model = None]
            /\ pc' = [pc EXCEPT ![c] = "chat_model"]
       ELSE /\ pc' = [pc EXCEPT ![c] = "get_ai_model_init"]
            /\ UNCHANGED req
    /\ UNCHANGED <<Process, Lazy, users, session, last, registered, logged_in>>

\* get_ai_model, lines 63-113 and 116-118: configure, list, select, construct
\* and store; any exception of configure or the constructor returns None
get_ai_model_init(c, listing, raises) ==
    /\ pc[c] = "get_ai_model_init"
    /\ init_runs' = Bump(init_runs)
    /\ IF raises
       THEN /\ req' = [req EXCEPT ![c].model = None]
            /\ pc' = [pc EXCEPT ![c] = "chat_model"]
            /\ UNCHANGED _model
       ELSE /\ _model' = Some(GenerativeModel(
                              chosen_model_name(available_models(listing)),
                              generation_config))
            /\ pc' = [pc EXCEPT ![c] = "get_ai_model_return"]
            /\ UNCHANGED req
    /\ UNCHANGED <<Process, users, session, last, registered, logged_in>>

\* get_ai_model, line 114: return _model reads the module-level name again
get_ai_model_return(c) ==
    /\ pc[c] = "get_ai_model_return"
    /\ req' = [req EXCEPT ![c].model = _model]
    /\ pc' = [pc EXCEPT ![c] = "chat_model"]
    /\ UNCHANGED <<Process, Lazy, users, session, last, registered, logged_in>>

\* ----------------------------------------------------------------- chat
Json(status, reply) == [Response("chat", status, "none") EXCEPT !.reply = reply]

\* What a request body can be: not JSON at all (request.json aborts with an
\* HTTP error), JSON that is no object (no .get), an object without
\* 'message' (.get gives None), an object with one.
Bodies == {"not_json", "json_array", "json_null", "object_no_message", "object_message"}

\* chat(), lines 221-225: login_required and the credential test
chat(c) ==
    /\ pc[c] = "idle"
    /\ IF ~is_authenticated(c)
       THEN /\ last' = Unauthorized("chat")
            /\ UNCHANGED pc
       ELSE IF GEMINI_API_KEY = None
       THEN /\ last' = Json("json", "AI System is currently offline (API Key missing).")
            /\ UNCHANGED pc
       ELSE /\ pc' = [pc EXCEPT ![c] = "get_ai_model"]
            /\ UNCHANGED last
    /\ UNCHANGED <<Process, Lazy, users, session, req, registered, logged_in>>

\* chat(), lines 230-233: the handle test and request.json.get('message'),
\* outside any try
chat_model(c, body) ==
    /\ pc[c] = "chat_model"
    /\ IF req[c].model = None
       THEN /\ last' = Json("json", "AI Model initialization failed. Check server logs for details.")
            /\ pc' = [pc EXCEPT ![c] = "idle"]
            /\ req' = [req EXCEPT ![c] = Idle]
       ELSE IF body = "not_json"
       THEN /\ last' = [Json("http_error", "none") EXCEPT !.detail = "UnsupportedMediaType"]
            /\ pc' = [pc EXCEPT ![c] = "idle"]
            /\ req' = [req EXCEPT ![c] = Idle]
       ELSE IF body \in {"json_array", "json_null"}
       THEN /\ last' = [Json("unhandled_exception", "none") EXCEPT !.detail = "AttributeError"]
            /\ pc' = [pc EXCEPT ![c] = "idle"]
            /\ req' = [req EXCEPT ![c] = Idle]
       ELSE /\ req' = [req EXCEPT ![c].user_message =
                          IF body = "object_message" THEN Some("message") ELSE None]
            /\ pc' = [pc EXCEPT ![c] = "chat_generate"]
            /\ UNCHANGED last
    /\ UNCHANGED <<Process, Lazy, users, session, registered, logged_in>>

\* What model.generate_content and response.text can do: a reply with text,
\* a reply whose .text raises, a provider error (401 among them), a
\* transport error.
Generations == {"text", "no_text", "http_401", "http_500", "timeout"}

\* The except clause formats every exception the same way.
Fallback(outcome) == "I'm having trouble thinking right now. Error details: {e}"

\* chat(), lines 244-249
chat_generate(c, outcome) ==
    /\ pc[c] = "chat_generate"
    /\ last' = IF outcome = "text"
               THEN [Json("json", "response.text") EXCEPT !.detail = "generated"]
               ELSE [Json("json", Fallback(outcome)) EXCEPT !.detail = outcome]
    /\ pc' = [pc EXCEPT ![c] = "idle"]
    /\ req' = [req EXCEPT ![c] = Idle]
    /\ UNCHANGED <<Process, Lazy, users, session, registered, logged_in>>

\* ----------------------------------------------------------------- Next
Next ==
    \E c \in Clients :
        \/ \E method \in Methods, username \in Usernames, password \in Passwords :
               login(c, method, username, password)
        \/ logout(c)
        \/ predictor(c)
        \/ \E method \in Methods, username \in Usernames, password \in Passwords,
              salt \in Salts :
               register_query(c, method, username, password, salt)
        \/ register_commit(c)
        \/ predict(c)
        \/ chat(c)
        \/ get_ai_model_enter(c)
        \/ \E listing \in Listings, raises \in BOOLEAN :
               get_ai_model_init(c, listing, raises)
        \/ get_ai_model_return(c)
        \/ \E body \in Bodies : chat_model(c, body)
        \/ \E outcome \in Generations : chat_generate(c, outcome)

Spec == Init /\ [][Next]_vars

\* =============================================================== claims
\* The handler of a route ran (login_required let the request through).
Handled(route) == last.route = route /\ last.status # "unauthorized"
ArtifactsLoaded == lr # None /\ sc # None
IsFiniteNumber(x) == ~float(x).raises /\ float(x).kind = "finite"
AllFinite(form) == \A i \in 1..Len(form) : IsFiniteNumber(form[i])
AllParse(form) == \A i \in 1..Len(form) : ~float(form[i]).raises
Positive ==
    /\ last.prediction_text = "Patient Diagnosed With Heart Disease"
    /\ last.prediction_class = "text-red-600"
Negative ==
    /\ last.prediction_text = "CONGRATULATIONS! Patient Not Diagnosed With Heart Disease"
    /\ last.prediction_class = "text-green-600"
ModelRaised == last.detail \in {"sc.transform raised", "lr.predict raised"}

\* C1: a predict request handled while both artifacts are loaded, with 13
\* values that are all finite numbers and with the scaler and the classifier
\* returning, shows no error notice and exactly one of the two outcomes:
\* the positive one if and only if the classifier's label is 1.
C1_ExactlyOneOutcome ==
    (/\ Handled("predict") /\ ArtifactsLoaded
     /\ Len(last.form) = NumFeatures /\ AllFinite(last.form)
     /\ ~ModelRaised)
    => /\ last.flash = "none"
       /\ last.scaler /\ last.classifier
       /\ Positive # Negative
       /\ Positive <=> last.label = 1
       /\ Negative <=> last.label # 1
C1_Witness ==
    /\ Handled("predict") /\ ArtifactsLoaded
    /\ Len(last.form) = NumFeatures /\ AllFinite(last.form)
    /\ Negative /\ last.label = MaxLabel

\* C2: a predict request handled while both artifacts are loaded, whose
\* values all parse as numbers and are not 13 in number, ends with the
\* count-mismatch notice carrying the number of values submitted, an empty
\* result, and neither the scaler nor the classifier invoked; an over-length
\* form is rejected like a short one.
C2_CountMismatch ==
    (/\ Handled("predict") /\ ArtifactsLoaded
     /\ AllParse(last.form) /\ Len(last.form) # NumFeatures)
    => /\ last.flash = "Error: Expected 13 features, got {n}."
       /\ last.count = Len(last.form)
       /\ last.prediction_text = ""
       /\ ~last.scaler /\ ~last.classifier
C2_Witness ==
    /\ Handled("predict") /\ ArtifactsLoaded
    /\ AllParse(last.form) /\ Len(last.form) = NumFeatures + 1
    /\ last.count = NumFeatures + 1

\* C3: a predict request handled while both artifacts are loaded, with at
\* least one value that is not a finite number ("abc", "", "nan", "inf"),
\* ends with the invalid-input notice, with neither the scaler nor the
\* classifier invoked.
C3_NonFiniteRejected ==
    (/\ Handled("predict") /\ ArtifactsLoaded
     /\ ~AllFinite(last.form))
    => /\ last.flash = "Error: {e}" /\ last.detail = "ValueError"
       /\ ~last.scaler /\ ~last.classifier

\* C4: when loading either file failed, both artifacts are None, and every
\* predict request the handler sees ends with the models-not-loaded notice,
\* an empty result, no value parsed, and no scaler or classifier call.
C4_ModelsUnavailable ==
    load_error # "none"
    => /\ lr = None /\ sc = None
       /\ Handled("predict")
          => /\ last.flash = "Models not loaded."
             /\ last.prediction_text = ""
             /\ ~last.parsed /\ ~last.scaler /\ ~last.classifier
C4_Witness ==
    /\ load_error = "sc.pkl"
    /\ Handled("predict") /\ last.flash = "Models not loaded."
    /\ Len(last.form) = NumFeatures /\ AllFinite(last.form)

\* a chat request of client c is past login_required and the credential test
InChat(c) ==
    pc[c] \in {"get_ai_model", "get_ai_model_init", "get_ai_model_return",
               "chat_model", "chat_generate"}
\* this step is predict() answering client c past login_required
Predicts(c) ==
    /\ pc[c] = "idle" /\ is_authenticated(c)
    /\ last'.route = "predict" /\ last' \in predict_outcomes(last'.form)
    /\ UNCHANGED <<Process, Lazy, users, session, pc, req, registered, logged_in>>

C6_DuplicateNotice ==
    /\ \A i, j \in 1..Len(users) : users[i].username = users[j].username => i = j
    /\ (last.route = "register" /\ last.detail = "IntegrityError")
       => /\ last.status = "render_register"
          /\ last.flash = "Username exists."

\* C7: every chat request the handler sees ends with a JSON reply whose
\* 'response' is a string; no exception leaves the handler.
C7_AlwaysJsonReply ==
    Handled("chat") => last.status = "json" /\ last.reply # "none"

\* C8: when the provider answers 401, the reply is not the generic fallback
\* returned for the other provider and transport failures.
C8_DistinctAuthFailure ==
    (Handled("chat") /\ last.detail = "http_401")
    => \A other \in Generations \ {"text", "http_401"} : last.reply # Fallback(other)

\* C9: whatever the interleaving of two first chat requests, a handle a
\* request holds and the handle left in the cache are for the same model
\* name and generation parameters.
C9_EquivalentHandles ==
    \A c \in Clients :
        (req[c].model # None /\ _model # None)
        => /\ req[c].model[1].model_name = _model[1].model_name
           /\ req[c].model[1].generation_config = _model[1].generation_config

\* C10: the set-up block of get_ai_model (configure, list, select) runs at
\* most once in the life of the process.
C10_InitAtMostOnce == init_runs <= 1

====
